---- MODULE Spec2Model ----
(***************************************************************************)
(* Capability resolution of an OpenGL context (context/capabilities.rs):   *)
(* get_capabilities and get_supported_glsl, as a single pass over the      *)
(* fields of the Capabilities struct literal, in the order the literal     *)
(* evaluates them.  The GL context answers every state query from a fixed  *)
(* implementation state `gl`; `queries` is the sequence of queries the     *)
(* pass has issued and `compared` the set of version thresholds the gates  *)
(* have compared the context's version with (Rust's || and && evaluate     *)
(* left to right and stop at the first deciding operand).                  *)
(***************************************************************************)
EXTENDS Integers, Sequences, FiniteSets, TLC

VARIABLES version, extensions, gl, pc, renderer, caps, queries, compared

vars == <<version, extensions, gl, pc, renderer, caps, queries, compared>>

(* Bounds of the version numbers explored (Version holds two u8). *)
MaxMajor == 4
MaxMinor == 6

(***************************************************************************)
(* Version and its ordering (version.rs, not among the source files).      *)
(***************************************************************************)
Apis == {"Gl", "GlEs"}

Version(api, major, minor) == [api |-> api, major |-> major, minor |-> minor]

Versions == [api : Apis, major : 1..MaxMajor, minor : 0..MaxMinor]

VersionGe(a, b) ==
    /\ a.api = b.api
    /\ \/ a.major > b.major
       \/ a.major = b.major /\ a.minor >= b.minor

VersionLe(a, b) ==
    /\ a.api = b.api
    /\ \/ a.major < b.major
       \/ a.major = b.major /\ a.minor <= b.minor

VersionEq(a, b) == a.api = b.api /\ a.major = b.major /\ a.minor = b.minor

(***************************************************************************)
(* Gate expressions.  A gate is the condition of one `if`: a disjunction   *)
(* (||) of clauses, each a conjunction (&&) of atoms, written in source    *)
(* order.  A chain is the gates of an if / else if sequence.               *)
(***************************************************************************)
Ge(api, major, minor) == [op |-> "ge", thr |-> Version(api, major, minor), name |-> ""]
Le(api, major, minor) == [op |-> "le", thr |-> Version(api, major, minor), name |-> ""]
Eq(api, major, minor) == [op |-> "eq", thr |-> Version(api, major, minor), name |-> ""]
Ext(name) == [op |-> "ext", thr |-> Version("Gl", 1, 0), name |-> name]
NoExt(name) == [op |-> "noext", thr |-> Version("Gl", 1, 0), name |-> name]

IsComparison(a) == a.op \in {"ge", "le", "eq"}

(* The version atoms comparing the numbers alone, whatever the API kinds. *)
AtomTrueNumbersOnly(a, v, e) ==
    CASE a.op = "ge" -> VersionGe([v EXCEPT !.api = a.thr.api], a.thr)
      [] a.op = "le" -> VersionLe([v EXCEPT !.api = a.thr.api], a.thr)
      [] a.op = "eq" -> VersionEq([v EXCEPT !.api = a.thr.api], a.thr)
      [] a.op = "ext" -> a.name \in e
      [] a.op = "noext" -> a.name \notin e

AtomTrue(a, v, e) ==
    CASE a.op = "ge" -> VersionGe(v, a.thr)
      [] a.op = "le" -> VersionLe(v, a.thr)
      [] a.op = "eq" -> VersionEq(v, a.thr)
      [] a.op = "ext" -> a.name \in e
      [] a.op = "noext" -> a.name \notin e

ClauseTrue(c, v, e) == \A j \in 1..Len(c) : AtomTrue(c[j], v, e)

GateTrue(g, v, e) == \E i \in 1..Len(g) : ClauseTrue(g[i], v, e)

(* The atoms short-circuit evaluation reaches: clause i when every earlier *)
(* clause is false, atom j of it when every earlier atom of it is true.    *)
GateEvaluated(g, v, e) ==
    UNION { { g[i][j] : j \in { n \in 1..Len(g[i]) :
                                  \A l \in 1..(n - 1) : AtomTrue(g[i][l], v, e) } } :
              i \in { m \in 1..Len(g) :
                        \A k \in 1..(m - 1) : ~ClauseTrue(g[k], v, e) } }

GateCompared(g, v, e) ==
    { [thr |-> a.thr, sat |-> AtomTrue(a, v, e)] :
        a \in { b \in GateEvaluated(g, v, e) : IsComparison(b) } }

(* The branch an if / else if chain takes: the index of its first true     *)
(* gate, or 0 for the final else.                                          *)
Path(chain, v, e) ==
    IF \E i \in 1..Len(chain) : GateTrue(chain[i], v, e)
    THEN CHOOSE i \in 1..Len(chain) :
            /\ GateTrue(chain[i], v, e)
            /\ \A k \in 1..(i - 1) : ~GateTrue(chain[k], v, e)
    ELSE 0

ChainCompared(chain, v, e) ==
    UNION { GateCompared(chain[i], v, e) :
              i \in { n \in 1..Len(chain) :
                        \A k \in 1..(n - 1) : ~GateTrue(chain[k], v, e) } }

(***************************************************************************)
(* The gates of get_capabilities, field by field.                          *)
(***************************************************************************)
RobustnessChain ==
    << << <<Ge("Gl", 4, 5)>>, <<Ge("GlEs", 3, 2)>>,
          <<Ge("Gl", 3, 0), Ext("gl_arb_robustness")>> >>,
       << <<Ext("gl_khr_robustness")>>, <<Ext("gl_ext_robustness")>> >> >>

CanLoseContextChain ==
    << << <<Ge("Gl", 4, 5)>>, <<Ext("gl_khr_robustness")>>,
          <<Ext("gl_arb_robustness")>>, <<Ext("gl_ext_robustness")>> >> >>

ReleaseBehaviorChain == << << <<Ext("gl_khr_context_flush_control")>> >> >>

StereoChain == << << <<Ge("Gl", 1, 0)>> >> >>

(* The attachment path taken on the version alone. *)
SrgbChainVersionFirst ==
    << << <<Ge("Gl", 3, 0)>> >>,
       << <<Ext("gl_ext_framebuffer_srgb")>> >> >>

SrgbChain ==
    << << <<Ge("Gl", 3, 0), NoExt("gl_ext_framebuffer_srgb")>> >>,
       << <<Ext("gl_ext_framebuffer_srgb")>> >> >>

DepthBitsChain == << << <<Ge("Gl", 3, 0), NoExt("gl_arb_compatibility")>> >> >>

StencilBitsChain == << << <<Ge("Gl", 3, 0), NoExt("gl_arb_compatibility")>> >> >>

MaxTextureMaxAnisotropyChain == << << <<NoExt("gl_ext_texture_filter_anisotropic")>> >> >>

MaxTextureBufferSizeChain ==
    << << <<Ge("Gl", 3, 0)>>, <<Ext("gl_arb_texture_buffer_object")>>,
          <<Ext("gl_ext_texture_buffer_object")>>, <<Ext("gl_oes_texture_buffer")>>,
          <<Ext("gl_ext_texture_buffer")>> >> >>

MaxDrawBuffersChain ==
    << << <<Ge("Gl", 2, 0)>>, <<Ge("GlEs", 3, 0)>>,
          <<Ext("gl_ati_draw_buffers")>>, <<Ext("gl_arb_draw_buffers")>> >> >>

(* The gate with an embedded threshold added (the source's `TODO: GLES`). *)
MaxPatchVerticesChainGles ==
    << << <<Ge("Gl", 4, 0)>>, <<Ge("GlEs", 3, 2)>>,
          <<Ext("gl_arb_tessellation_shader")>> >> >>

MaxPatchVerticesChain ==
    << << <<Ge("Gl", 4, 0)>>, <<Ext("gl_arb_tessellation_shader")>> >> >>

MaxIndexedAtomicCounterBufferChain == << << <<Ge("Gl", 4, 2)>> >> >>

MaxIndexedShaderStorageBufferChain ==
    << << <<Ge("Gl", 4, 3)>>, <<Ext("gl_arb_shader_storage_buffer_object")>> >> >>

MaxIndexedTransformFeedbackBufferChain ==
    << << <<Ge("Gl", 4, 0)>>, <<Ext("gl_arb_transform_feedback3")>> >>,
       << <<Ge("Gl", 3, 0)>>, <<Ext("gl_ext_transform_feedback")>> >> >>

MaxIndexedUniformBufferChain ==
    << << <<Ge("Gl", 3, 1)>>, <<Ext("gl_arb_uniform_buffer_object")>> >> >>

MaxComputeWorkGroupCountChain ==
    << << <<Ge("Gl", 4, 3)>>, <<Ge("GlEs", 3, 1)>>,
          <<Ext("gl_arb_compute_shader")>> >> >>

(***************************************************************************)
(* get_supported_glsl: the tests of the shader-version table in source     *)
(* order, each with the entry it pushes.                                   *)
(***************************************************************************)
GlslTest(gate, api, major, minor) == [gate |-> gate, entry |-> Version(api, major, minor)]

(* `if version >= &Version(Api::Gl, 4, 3) { }`: evaluated, with an empty body. *)
GlslFastPathGate == << <<Ge("Gl", 4, 3)>> >>

GlslFixedTests ==
    << GlslTest(<< <<Ge("GlEs", 2, 0)>>, <<Ge("Gl", 4, 1)>>,
                   <<Ext("gl_arb_es2_compatibility")>> >>, "GlEs", 1, 0),
       GlslTest(<< <<Ge("GlEs", 3, 0)>>, <<Ge("Gl", 4, 3)>>,
                   <<Ext("gl_arb_es3_compatibility")>> >>, "GlEs", 3, 0),
       GlslTest(<< <<Ge("GlEs", 3, 1)>>, <<Ge("Gl", 4, 5)>>,
                   <<Ext("gl_arb_es3_1_compatibility")>> >>, "GlEs", 3, 1),
       GlslTest(<< <<Ge("GlEs", 3, 2)>>,
                   <<Ext("gl_arb_es3_2_compatibility")>> >>, "GlEs", 3, 2),
       GlslTest(<< <<Ge("Gl", 2, 0), Le("Gl", 3, 0)>>,
                   <<Ext("gl_arb_compatibility")>> >>, "Gl", 1, 1),
       GlslTest(<< <<Ge("Gl", 2, 1), Le("Gl", 3, 0)>>,
                   <<Ext("gl_arb_compatibility")>> >>, "Gl", 1, 2),
       GlslTest(<< <<Eq("Gl", 3, 0)>>,
                   <<Ext("gl_arb_compatibility")>> >>, "Gl", 1, 3),
       GlslTest(<< <<Ge("Gl", 3, 1)>> >>, "Gl", 1, 4),
       GlslTest(<< <<Ge("Gl", 3, 2)>> >>, "Gl", 1, 5) >>

(* The loop's list with one pair repeated in place of its successor. *)
GlslLoopVersionsRepeated ==
    << <<3, 3>>, <<4, 0>>, <<4, 1>>, <<4, 1>>, <<4, 3>>, <<4, 4>>, <<4, 5>> >>

GlslLoopVersions ==
    << <<3, 3>>, <<4, 0>>, <<4, 1>>, <<4, 2>>, <<4, 3>>, <<4, 4>>, <<4, 5>> >>

(* The loop testing `version == ...` instead of `version >= ...`. *)
GlslLoopTestsExact ==
    [ i \in 1..Len(GlslLoopVersions) |->
        GlslTest(<< <<Eq("Gl", GlslLoopVersions[i][1], GlslLoopVersions[i][2])>> >>,
                 "Gl", GlslLoopVersions[i][1], GlslLoopVersions[i][2]) ]

GlslLoopTests ==
    [ i \in 1..Len(GlslLoopVersions) |->
        GlslTest(<< <<Ge("Gl", GlslLoopVersions[i][1], GlslLoopVersions[i][2])>> >>,
                 "Gl", GlslLoopVersions[i][1], GlslLoopVersions[i][2]) ]

GlslTable == GlslFixedTests \o GlslLoopTests

(* result.push(...) test after test, from the i-th test on. *)
RECURSIVE GlslPush(_, _, _, _)
GlslPush(i, result, v, e) ==
    IF i > Len(GlslTable) THEN result
    ELSE GlslPush(i + 1,
                  IF GateTrue(GlslTable[i].gate, v, e)
                  THEN Append(result, GlslTable[i].entry)
                  ELSE result,
                  v, e)

GlslTableCompared(v, e) ==
    GateCompared(GlslFastPathGate, v, e)
      \cup UNION { GateCompared(GlslTable[i].gate, v, e) : i \in 1..Len(GlslTable) }

(***************************************************************************)
(* The GL context: the renderer string glGetString returns and the value   *)
(* every other state query returns.                                        *)
(***************************************************************************)
NONE == 0
CONTEXT_FLAG_ROBUST_ACCESS_BIT == 4
LOSE_CONTEXT_ON_RESET == 33362
NO_RESET_NOTIFICATION == 33377
AMD_RESET_NOTIFICATION == 12734
CONTEXT_RELEASE_BEHAVIOR_FLUSH == 33532
SRGB == 35904
RadeonTextureUnits == 32

Radeon == <<"R", "a", "d", "e", "o", "n">>

Contains(str, pat) ==
    \E i \in 0..(Len(str) - Len(pat)) : SubSeq(str, i + 1, i + Len(pat)) = pat

Min(a, b) == IF a <= b THEN a ELSE b

(* `v as u16` of a GLint *)
AsU16(v) == v % 65536

(* `val & bit` for a single-bit mask and a non-negative val *)
BitSet(val, bit) == (val \div bit) % 2 = 1

GenericRenderer ==
    [null |-> FALSE, utf8 |-> TRUE,
     chars |-> <<"G", "e", "n", "e", "r", "i", "c", " ", "G", "P", "U">>]

Renderers ==
    { GenericRenderer,
      [null |-> FALSE, utf8 |-> TRUE,
       chars |-> <<"A", "M", "D", " ", "R", "a", "d", "e", "o", "n", " ", "H", "D">>],
      [null |-> FALSE, utf8 |-> TRUE, chars |-> Radeon],
      [null |-> FALSE, utf8 |-> TRUE, chars |-> <<"r", "a", "d", "e", "o", "n">>],
      [null |-> FALSE, utf8 |-> FALSE, chars |-> <<>>],
      [null |-> TRUE, utf8 |-> TRUE, chars |-> <<>>] }

(* For each query token, the values a context may answer; the first of     *)
(* each tuple is the answer of the baseline context.                       *)
TokenValues ==
    [ SHADER_COMPILER |-> <<1, 0>>,
      CONTEXT_FLAGS |-> <<0, 2, 4, 6>>,
      CONTEXT_ROBUST_ACCESS |-> <<0, 1>>,
      RESET_NOTIFICATION_STRATEGY |->
          <<NO_RESET_NOTIFICATION, LOSE_CONTEXT_ON_RESET, AMD_RESET_NOTIFICATION, 0, 12735>>,
      CONTEXT_RELEASE_BEHAVIOR |-> <<CONTEXT_RELEASE_BEHAVIOR_FLUSH, NONE, 1>>,
      STEREO |-> <<0, 1>>,
      COLOR_ENCODING |-> <<9729, SRGB>>,
      FRAMEBUFFER_SRGB_CAPABLE_EXT |-> <<0, 1>>,
      DEPTH_OBJECT_TYPE |-> <<33304, NONE>>,
      DEPTH_SIZE |-> <<24, 0, 65560>>,
      DEPTH_BITS |-> <<24, 0>>,
      STENCIL_OBJECT_TYPE |-> <<33304, NONE>>,
      STENCIL_SIZE |-> <<8, 0, 65544>>,
      STENCIL_BITS |-> <<8, 0>>,
      MAX_COMBINED_TEXTURE_IMAGE_UNITS |-> <<16, 31, 32, 33, 48>>,
      MAX_TEXTURE_MAX_ANISOTROPY_EXT |-> <<16, 1>>,
      MAX_TEXTURE_BUFFER_SIZE |-> <<65536, 1>>,
      MAX_VIEWPORT_DIMS_0 |-> <<4096>>,
      MAX_VIEWPORT_DIMS_1 |-> <<2048>>,
      MAX_DRAW_BUFFERS |-> <<8, 1>>,
      MAX_PATCH_VERTICES |-> <<32, 1>>,
      MAX_ATOMIC_COUNTER_BUFFER_BINDINGS |-> <<8, 0>>,
      MAX_SHADER_STORAGE_BUFFER_BINDINGS |-> <<8, 0>>,
      MAX_TRANSFORM_FEEDBACK_BUFFERS |-> <<4, 0>>,
      MAX_TRANSFORM_FEEDBACK_SEPARATE_ATTRIBS_EXT |-> <<5, 0>>,
      MAX_UNIFORM_BUFFER_BINDINGS |-> <<36, 0>>,
      MAX_COMPUTE_WORK_GROUP_COUNT_0 |-> <<65535, 0>>,
      MAX_COMPUTE_WORK_GROUP_COUNT_1 |-> <<65534>>,
      MAX_COMPUTE_WORK_GROUP_COUNT_2 |-> <<65533>> ]

Tokens == DOMAIN TokenValues

Range(seq) == { seq[i] : i \in 1..Len(seq) }

(* The contexts that differ from the baseline in the answers to `toks`. *)
ValStates(toks) ==
    { [ t \in Tokens |-> IF t \in toks THEN o[t] ELSE TokenValues[t][1] ] :
        o \in { f \in [ toks -> UNION { Range(TokenValues[t]) : t \in toks } ] :
                  \A t \in toks : f[t] \in Range(TokenValues[t]) } }

(***************************************************************************)
(* The extension flags each field reads, and the tokens it queries.        *)
(***************************************************************************)
FieldExts ==
    [ supported_glsl_versions |->
          { "gl_arb_es2_compatibility", "gl_arb_es3_compatibility",
            "gl_arb_es3_1_compatibility", "gl_arb_es3_2_compatibility",
            "gl_arb_compatibility" },
      robustness |-> { "gl_arb_robustness", "gl_khr_robustness", "gl_ext_robustness" },
      can_lose_context |-> { "gl_arb_robustness", "gl_khr_robustness", "gl_ext_robustness" },
      release_behavior |-> { "gl_khr_context_flush_control" },
      stereo |-> {},
      srgb |-> { "gl_ext_framebuffer_srgb" },
      depth_bits |-> { "gl_arb_compatibility" },
      stencil_bits |-> { "gl_arb_compatibility" },
      max_combined_texture_image_units |-> {},
      max_texture_max_anisotropy |-> { "gl_ext_texture_filter_anisotropic" },
      max_texture_buffer_size |->
          { "gl_arb_texture_buffer_object", "gl_ext_texture_buffer_object",
            "gl_oes_texture_buffer", "gl_ext_texture_buffer" },
      max_viewport_dims |-> {},
      max_draw_buffers |-> { "gl_ati_draw_buffers", "gl_arb_draw_buffers" },
      max_patch_vertices |-> { "gl_arb_tessellation_shader" },
      max_indexed_atomic_counter_buffer |-> {},
      max_indexed_shader_storage_buffer |-> { "gl_arb_shader_storage_buffer_object" },
      max_indexed_transform_feedback_buffer |->
          { "gl_arb_transform_feedback3", "gl_ext_transform_feedback" },
      max_indexed_uniform_buffer |-> { "gl_arb_uniform_buffer_object" },
      max_compute_work_group_count |-> { "gl_arb_compute_shader" } ]

FieldTokens ==
    [ supported_glsl_versions |-> { "SHADER_COMPILER" },
      robustness |-> { "CONTEXT_FLAGS", "CONTEXT_ROBUST_ACCESS" },
      can_lose_context |-> { "RESET_NOTIFICATION_STRATEGY" },
      release_behavior |-> { "CONTEXT_RELEASE_BEHAVIOR" },
      stereo |-> { "STEREO" },
      srgb |-> { "COLOR_ENCODING", "FRAMEBUFFER_SRGB_CAPABLE_EXT" },
      depth_bits |-> { "DEPTH_OBJECT_TYPE", "DEPTH_SIZE", "DEPTH_BITS" },
      stencil_bits |-> { "STENCIL_OBJECT_TYPE", "STENCIL_SIZE", "STENCIL_BITS" },
      max_combined_texture_image_units |-> { "MAX_COMBINED_TEXTURE_IMAGE_UNITS" },
      max_texture_max_anisotropy |-> { "MAX_TEXTURE_MAX_ANISOTROPY_EXT" },
      max_texture_buffer_size |-> { "MAX_TEXTURE_BUFFER_SIZE" },
      max_viewport_dims |-> { "MAX_VIEWPORT_DIMS_0", "MAX_VIEWPORT_DIMS_1" },
      max_draw_buffers |-> { "MAX_DRAW_BUFFERS" },
      max_patch_vertices |-> { "MAX_PATCH_VERTICES" },
      max_indexed_atomic_counter_buffer |-> { "MAX_ATOMIC_COUNTER_BUFFER_BINDINGS" },
      max_indexed_shader_storage_buffer |-> { "MAX_SHADER_STORAGE_BUFFER_BINDINGS" },
      max_indexed_transform_feedback_buffer |->
          { "MAX_TRANSFORM_FEEDBACK_BUFFERS", "MAX_TRANSFORM_FEEDBACK_SEPARATE_ATTRIBS_EXT" },
      max_indexed_uniform_buffer |-> { "MAX_UNIFORM_BUFFER_BINDINGS" },
      max_compute_work_group_count |->
          { "MAX_COMPUTE_WORK_GROUP_COUNT_0", "MAX_COMPUTE_WORK_GROUP_COUNT_1",
            "MAX_COMPUTE_WORK_GROUP_COUNT_2" } ]

Fields == DOMAIN FieldExts

AllExts == UNION { FieldExts[f] : f \in Fields }

(* The inputs explored: every version; every combination of the flags one  *)
(* field reads, with the flags of the other fields all absent or all       *)
(* present; every combination of the answers to that field's queries, the  *)
(* other answers being the baseline's.                                     *)
ExtensionSets(f) ==
    { on \cup rest : on \in SUBSET FieldExts[f], rest \in { {}, AllExts \ FieldExts[f] } }

GlStates(f) ==
    { [renderer |-> r, val |-> s] :
        r \in (IF f = "max_combined_texture_image_units" THEN Renderers
               ELSE { GenericRenderer }),
        s \in ValStates(FieldTokens[f]) }

NoCaps == [ f \in {} |-> 0 ]

Init ==
    /\ version \in Versions
    /\ \E f \in Fields :
          /\ extensions \in ExtensionSets(f)
          /\ gl \in GlStates(f)
    /\ pc = "renderer"
    /\ renderer = <<>>
    /\ caps = NoCaps
    /\ queries = <<>>
    /\ compared = {}

(***************************************************************************)
(* Per field: the queries the taken branch issues (Queries), the value it  *)
(* yields (Value) and whether it reaches unreachable!() (Panics).  p is    *)
(* the branch (Path of the field's chain), s the context's answers.        *)
(***************************************************************************)
Query(field, token) == [field |-> field, token |-> token]

None == <<>>
Some(v) == <<v>>

RobustnessQueries(p, s) ==
    CASE p = 1 -> <<Query("robustness", "CONTEXT_FLAGS")>>
      [] p = 2 -> <<Query("robustness", "CONTEXT_ROBUST_ACCESS")>>
      [] OTHER -> <<>>

RobustnessValue(p, s) ==
    CASE p = 1 -> BitSet(s["CONTEXT_FLAGS"], CONTEXT_FLAG_ROBUST_ACCESS_BIT)
      [] p = 2 -> s["CONTEXT_ROBUST_ACCESS"] # 0
      [] OTHER -> FALSE

CanLoseContextQueries(p, s) ==
    IF p = 1 THEN <<Query("can_lose_context", "RESET_NOTIFICATION_STRATEGY")>> ELSE <<>>

(* The match without the AMD arm. *)
CanLoseContextPanicsNoWorkaround(p, s) ==
    /\ p = 1
    /\ s["RESET_NOTIFICATION_STRATEGY"] \notin { LOSE_CONTEXT_ON_RESET, NO_RESET_NOTIFICATION }

CanLoseContextPanics(p, s) ==
    /\ p = 1
    /\ s["RESET_NOTIFICATION_STRATEGY"] \notin
          { LOSE_CONTEXT_ON_RESET, NO_RESET_NOTIFICATION, AMD_RESET_NOTIFICATION }

CanLoseContextValue(p, s) ==
    IF p = 1
    THEN CASE s["RESET_NOTIFICATION_STRATEGY"] = LOSE_CONTEXT_ON_RESET -> TRUE
           [] s["RESET_NOTIFICATION_STRATEGY"] = NO_RESET_NOTIFICATION -> FALSE
           [] s["RESET_NOTIFICATION_STRATEGY"] = AMD_RESET_NOTIFICATION -> FALSE
    ELSE FALSE

ReleaseBehaviorQueries(p, s) ==
    IF p = 1 THEN <<Query("release_behavior", "CONTEXT_RELEASE_BEHAVIOR")>> ELSE <<>>

ReleaseBehaviorPanics(p, s) ==
    /\ p = 1
    /\ s["CONTEXT_RELEASE_BEHAVIOR"] \notin { NONE, CONTEXT_RELEASE_BEHAVIOR_FLUSH }

ReleaseBehaviorValue(p, s) ==
    IF p = 1
    THEN CASE s["CONTEXT_RELEASE_BEHAVIOR"] = NONE -> "None"
           [] s["CONTEXT_RELEASE_BEHAVIOR"] = CONTEXT_RELEASE_BEHAVIOR_FLUSH -> "Flush"
    ELSE "Flush"

StereoQueries(p, s) == IF p = 1 THEN <<Query("stereo", "STEREO")>> ELSE <<>>

StereoValue(p, s) == IF p = 1 THEN s["STEREO"] # 0 ELSE FALSE

SrgbQueries(p, s) ==
    CASE p = 1 -> <<Query("srgb", "COLOR_ENCODING")>>
      [] p = 2 -> <<Query("srgb", "FRAMEBUFFER_SRGB_CAPABLE_EXT")>>
      [] OTHER -> <<>>

SrgbValue(p, s) ==
    CASE p = 1 -> s["COLOR_ENCODING"] = SRGB
      [] p = 2 -> s["FRAMEBUFFER_SRGB_CAPABLE_EXT"] # 0
      [] OTHER -> FALSE

(* The size probe issued whatever the type probe answers. *)
DepthBitsQueriesNoShortCut(p, s) ==
    IF p = 1
    THEN <<Query("depth_bits", "DEPTH_OBJECT_TYPE"), Query("depth_bits", "DEPTH_SIZE")>>
    ELSE <<Query("depth_bits", "DEPTH_BITS")>>

DepthBitsQueries(p, s) ==
    IF p = 1
    THEN IF s["DEPTH_OBJECT_TYPE"] = NONE
         THEN <<Query("depth_bits", "DEPTH_OBJECT_TYPE")>>
         ELSE <<Query("depth_bits", "DEPTH_OBJECT_TYPE"), Query("depth_bits", "DEPTH_SIZE")>>
    ELSE <<Query("depth_bits", "DEPTH_BITS")>>

DepthBitsRaw(p, s) ==
    IF p = 1
    THEN IF s["DEPTH_OBJECT_TYPE"] = NONE THEN 0 ELSE s["DEPTH_SIZE"]
    ELSE s["DEPTH_BITS"]

DepthBitsValue(p, s) ==
    IF DepthBitsRaw(p, s) = 0 THEN None ELSE Some(AsU16(DepthBitsRaw(p, s)))

StencilBitsQueries(p, s) ==
    IF p = 1
    THEN IF s["STENCIL_OBJECT_TYPE"] = NONE
         THEN <<Query("stencil_bits", "STENCIL_OBJECT_TYPE")>>
         ELSE <<Query("stencil_bits", "STENCIL_OBJECT_TYPE"),
                Query("stencil_bits", "STENCIL_SIZE")>>
    ELSE <<Query("stencil_bits", "STENCIL_BITS")>>

StencilBitsRaw(p, s) ==
    IF p = 1
    THEN IF s["STENCIL_OBJECT_TYPE"] = NONE THEN 0 ELSE s["STENCIL_SIZE"]
    ELSE s["STENCIL_BITS"]

StencilBitsValue(p, s) ==
    IF StencilBitsRaw(p, s) = 0 THEN None ELSE Some(AsU16(StencilBitsRaw(p, s)))

MaxCombinedTextureImageUnitsQueries(p, s) ==
    <<Query("max_combined_texture_image_units", "MAX_COMBINED_TEXTURE_IMAGE_UNITS")>>

(* The ceiling assigned instead of min(val, ceiling). *)
RadeonClampAssign(rend, val) ==
    IF Contains(rend, Radeon) THEN RadeonTextureUnits ELSE val

(* The work-around of issue #1181, on the value queried. *)
RadeonClamp(rend, val) ==
    IF Contains(rend, Radeon) THEN Min(val, RadeonTextureUnits) ELSE val

MaxCombinedTextureImageUnitsValue(p, s) ==
    RadeonClamp(renderer, s["MAX_COMBINED_TEXTURE_IMAGE_UNITS"])

MaxTextureMaxAnisotropyQueries(p, s) ==
    IF p = 1 THEN <<>>
    ELSE <<Query("max_texture_max_anisotropy", "MAX_TEXTURE_MAX_ANISOTROPY_EXT")>>

MaxTextureMaxAnisotropyValue(p, s) ==
    IF p = 1 THEN None ELSE Some(s["MAX_TEXTURE_MAX_ANISOTROPY_EXT"])

MaxTextureBufferSizeQueries(p, s) ==
    IF p = 1 THEN <<Query("max_texture_buffer_size", "MAX_TEXTURE_BUFFER_SIZE")>> ELSE <<>>

MaxTextureBufferSizeValue(p, s) ==
    IF p = 1 THEN Some(s["MAX_TEXTURE_BUFFER_SIZE"]) ELSE None

MaxViewportDimsQueries(p, s) == <<Query("max_viewport_dims", "MAX_VIEWPORT_DIMS")>>

MaxViewportDimsValue(p, s) == <<s["MAX_VIEWPORT_DIMS_0"], s["MAX_VIEWPORT_DIMS_1"]>>

MaxDrawBuffersQueries(p, s) ==
    IF p = 1 THEN <<Query("max_draw_buffers", "MAX_DRAW_BUFFERS")>> ELSE <<>>

(* The fallback of the other counts used for the draw buffers. *)
MaxDrawBuffersValueZero(p, s) == IF p = 1 THEN s["MAX_DRAW_BUFFERS"] ELSE 0

MaxDrawBuffersValue(p, s) == IF p = 1 THEN s["MAX_DRAW_BUFFERS"] ELSE 1

MaxPatchVerticesQueries(p, s) ==
    IF p = 1 THEN <<Query("max_patch_vertices", "MAX_PATCH_VERTICES")>> ELSE <<>>

MaxPatchVerticesValue(p, s) == IF p = 1 THEN Some(s["MAX_PATCH_VERTICES"]) ELSE None

MaxIndexedAtomicCounterBufferQueries(p, s) ==
    IF p = 1
    THEN <<Query("max_indexed_atomic_counter_buffer", "MAX_ATOMIC_COUNTER_BUFFER_BINDINGS")>>
    ELSE <<>>

MaxIndexedAtomicCounterBufferValue(p, s) ==
    IF p = 1 THEN s["MAX_ATOMIC_COUNTER_BUFFER_BINDINGS"] ELSE 0

MaxIndexedShaderStorageBufferQueries(p, s) ==
    IF p = 1
    THEN <<Query("max_indexed_shader_storage_buffer", "MAX_SHADER_STORAGE_BUFFER_BINDINGS")>>
    ELSE <<>>

MaxIndexedShaderStorageBufferValue(p, s) ==
    IF p = 1 THEN s["MAX_SHADER_STORAGE_BUFFER_BINDINGS"] ELSE 0

MaxIndexedTransformFeedbackBufferQueries(p, s) ==
    CASE p = 1 -> <<Query("max_indexed_transform_feedback_buffer",
                          "MAX_TRANSFORM_FEEDBACK_BUFFERS")>>
      [] p = 2 -> <<Query("max_indexed_transform_feedback_buffer",
                          "MAX_TRANSFORM_FEEDBACK_SEPARATE_ATTRIBS_EXT")>>
      [] OTHER -> <<>>

MaxIndexedTransformFeedbackBufferValue(p, s) ==
    CASE p = 1 -> s["MAX_TRANSFORM_FEEDBACK_BUFFERS"]
      [] p = 2 -> s["MAX_TRANSFORM_FEEDBACK_SEPARATE_ATTRIBS_EXT"]
      [] OTHER -> 0

MaxIndexedUniformBufferQueries(p, s) ==
    IF p = 1
    THEN <<Query("max_indexed_uniform_buffer", "MAX_UNIFORM_BUFFER_BINDINGS")>>
    ELSE <<>>

MaxIndexedUniformBufferValue(p, s) ==
    IF p = 1 THEN s["MAX_UNIFORM_BUFFER_BINDINGS"] ELSE 0

MaxComputeWorkGroupCountQueries(p, s) ==
    IF p = 1
    THEN <<Query("max_compute_work_group_count", "MAX_COMPUTE_WORK_GROUP_COUNT_0"),
           Query("max_compute_work_group_count", "MAX_COMPUTE_WORK_GROUP_COUNT_1"),
           Query("max_compute_work_group_count", "MAX_COMPUTE_WORK_GROUP_COUNT_2")>>
    ELSE <<>>

MaxComputeWorkGroupCountValue(p, s) ==
    IF p = 1
    THEN <<s["MAX_COMPUTE_WORK_GROUP_COUNT_0"], s["MAX_COMPUTE_WORK_GROUP_COUNT_1"],
           s["MAX_COMPUTE_WORK_GROUP_COUNT_2"]>>
    ELSE <<0, 0, 0>>

(***************************************************************************)
(* The pass.                                                               *)
(***************************************************************************)
Inputs == <<version, extensions, gl>>

(* let renderer = ...: glGetString(GL_RENDERER), asserted non-null and UTF-8 *)
FetchRenderer ==
    /\ pc = "renderer"
    /\ queries' = Append(queries, Query("renderer", "RENDERER"))
    /\ IF gl.renderer.null \/ ~gl.renderer.utf8
       THEN pc' = "panic" /\ UNCHANGED renderer
       ELSE pc' = "glsl_probe" /\ renderer' = gl.renderer.chars
    /\ UNCHANGED <<Inputs, caps, compared>>

(* The probe's test inverted. *)
CompilerAbsentInverted(val) == val # 0

(* `if val == 0 { return vec![]; }` *)
CompilerAbsent(val) == val = 0

(* get_supported_glsl up to the table: the compiler probe of a GlEs context *)
GlslProbe ==
    /\ pc = "glsl_probe"
    /\ IF version.api = "GlEs"
       THEN /\ queries' = Append(queries, Query("supported_glsl_versions", "SHADER_COMPILER"))
            /\ IF CompilerAbsent(gl.val["SHADER_COMPILER"])
               THEN /\ caps' = caps @@ ("supported_glsl_versions" :> <<>>)
                    /\ pc' = "robustness"
               ELSE /\ pc' = "glsl_table"
                    /\ UNCHANGED caps
       ELSE /\ pc' = "glsl_table"
            /\ UNCHANGED <<queries, caps>>
    /\ UNCHANGED <<Inputs, renderer, compared>>

(* get_supported_glsl from the table on *)
GlslBuild ==
    /\ pc = "glsl_table"
    /\ caps' = caps @@ ("supported_glsl_versions" :> GlslPush(1, <<>>, version, extensions))
    /\ compared' = compared \cup GlslTableCompared(version, extensions)
    /\ pc' = "robustness"
    /\ UNCHANGED <<Inputs, renderer, queries>>

(* One field of the struct literal: the comparisons its gates evaluate,    *)
(* the queries its branch issues, and its value unless the branch panics.  *)
Resolve(field, next, chain, issued, value, panics) ==
    /\ queries' = queries \o issued
    /\ compared' = compared \cup ChainCompared(chain, version, extensions)
    /\ IF panics
       THEN pc' = "panic" /\ UNCHANGED caps
       ELSE pc' = next /\ caps' = caps @@ (field :> value)
    /\ UNCHANGED <<Inputs, renderer>>

(* The branch the field's chain takes for the context's inputs. *)
Branch(chain) == Path(chain, version, extensions)

ResolveRobustness ==
    /\ pc = "robustness"
    /\ Resolve("robustness", "can_lose_context",
               RobustnessChain,
               RobustnessQueries(Branch(RobustnessChain), gl.val),
               RobustnessValue(Branch(RobustnessChain), gl.val),
               FALSE)

ResolveCanLoseContext ==
    /\ pc = "can_lose_context"
    /\ Resolve("can_lose_context", "release_behavior",
               CanLoseContextChain,
               CanLoseContextQueries(Branch(CanLoseContextChain), gl.val),
               CanLoseContextValue(Branch(CanLoseContextChain), gl.val),
               CanLoseContextPanics(Branch(CanLoseContextChain), gl.val))

ResolveReleaseBehavior ==
    /\ pc = "release_behavior"
    /\ Resolve("release_behavior", "stereo",
               ReleaseBehaviorChain,
               ReleaseBehaviorQueries(Branch(ReleaseBehaviorChain), gl.val),
               ReleaseBehaviorValue(Branch(ReleaseBehaviorChain), gl.val),
               ReleaseBehaviorPanics(Branch(ReleaseBehaviorChain), gl.val))

ResolveStereo ==
    /\ pc = "stereo"
    /\ Resolve("stereo", "srgb",
               StereoChain,
               StereoQueries(Branch(StereoChain), gl.val),
               StereoValue(Branch(StereoChain), gl.val),
               FALSE)

ResolveSrgb ==
    /\ pc = "srgb"
    /\ Resolve("srgb", "depth_bits",
               SrgbChain,
               SrgbQueries(Branch(SrgbChain), gl.val),
               SrgbValue(Branch(SrgbChain), gl.val),
               FALSE)

ResolveDepthBits ==
    /\ pc = "depth_bits"
    /\ Resolve("depth_bits", "stencil_bits",
               DepthBitsChain,
               DepthBitsQueries(Branch(DepthBitsChain), gl.val),
               DepthBitsValue(Branch(DepthBitsChain), gl.val),
               FALSE)

ResolveStencilBits ==
    /\ pc = "stencil_bits"
    /\ Resolve("stencil_bits", "max_combined_texture_image_units",
               StencilBitsChain,
               StencilBitsQueries(Branch(StencilBitsChain), gl.val),
               StencilBitsValue(Branch(StencilBitsChain), gl.val),
               FALSE)

ResolveMaxCombinedTextureImageUnits ==
    /\ pc = "max_combined_texture_image_units"
    /\ Resolve("max_combined_texture_image_units", "max_texture_max_anisotropy",
               <<>>,
               MaxCombinedTextureImageUnitsQueries(Branch(<<>>), gl.val),
               MaxCombinedTextureImageUnitsValue(Branch(<<>>), gl.val),
               FALSE)

ResolveMaxTextureMaxAnisotropy ==
    /\ pc = "max_texture_max_anisotropy"
    /\ Resolve("max_texture_max_anisotropy", "max_texture_buffer_size",
               MaxTextureMaxAnisotropyChain,
               MaxTextureMaxAnisotropyQueries(Branch(MaxTextureMaxAnisotropyChain), gl.val),
               MaxTextureMaxAnisotropyValue(Branch(MaxTextureMaxAnisotropyChain), gl.val),
               FALSE)

ResolveMaxTextureBufferSize ==
    /\ pc = "max_texture_buffer_size"
    /\ Resolve("max_texture_buffer_size", "max_viewport_dims",
               MaxTextureBufferSizeChain,
               MaxTextureBufferSizeQueries(Branch(MaxTextureBufferSizeChain), gl.val),
               MaxTextureBufferSizeValue(Branch(MaxTextureBufferSizeChain), gl.val),
               FALSE)

ResolveMaxViewportDims ==
    /\ pc = "max_viewport_dims"
    /\ Resolve("max_viewport_dims", "max_draw_buffers",
               <<>>,
               MaxViewportDimsQueries(Branch(<<>>), gl.val),
               MaxViewportDimsValue(Branch(<<>>), gl.val),
               FALSE)

ResolveMaxDrawBuffers ==
    /\ pc = "max_draw_buffers"
    /\ Resolve("max_draw_buffers", "max_patch_vertices",
               MaxDrawBuffersChain,
               MaxDrawBuffersQueries(Branch(MaxDrawBuffersChain), gl.val),
               MaxDrawBuffersValue(Branch(MaxDrawBuffersChain), gl.val),
               FALSE)

ResolveMaxPatchVertices ==
    /\ pc = "max_patch_vertices"
    /\ Resolve("max_patch_vertices", "max_indexed_atomic_counter_buffer",
               MaxPatchVerticesChain,
               MaxPatchVerticesQueries(Branch(MaxPatchVerticesChain), gl.val),
               MaxPatchVerticesValue(Branch(MaxPatchVerticesChain), gl.val),
               FALSE)

ResolveMaxIndexedAtomicCounterBuffer ==
    /\ pc = "max_indexed_atomic_counter_buffer"
    /\ Resolve("max_indexed_atomic_counter_buffer", "max_indexed_shader_storage_buffer",
               MaxIndexedAtomicCounterBufferChain,
               MaxIndexedAtomicCounterBufferQueries(Branch(MaxIndexedAtomicCounterBufferChain), gl.val),
               MaxIndexedAtomicCounterBufferValue(Branch(MaxIndexedAtomicCounterBufferChain), gl.val),
               FALSE)

ResolveMaxIndexedShaderStorageBuffer ==
    /\ pc = "max_indexed_shader_storage_buffer"
    /\ Resolve("max_indexed_shader_storage_buffer", "max_indexed_transform_feedback_buffer",
               MaxIndexedShaderStorageBufferChain,
               MaxIndexedShaderStorageBufferQueries(Branch(MaxIndexedShaderStorageBufferChain), gl.val),
               MaxIndexedShaderStorageBufferValue(Branch(MaxIndexedShaderStorageBufferChain), gl.val),
               FALSE)

ResolveMaxIndexedTransformFeedbackBuffer ==
    /\ pc = "max_indexed_transform_feedback_buffer"
    /\ Resolve("max_indexed_transform_feedback_buffer", "max_indexed_uniform_buffer",
               MaxIndexedTransformFeedbackBufferChain,
               MaxIndexedTransformFeedbackBufferQueries(Branch(MaxIndexedTransformFeedbackBufferChain), gl.val),
               MaxIndexedTransformFeedbackBufferValue(Branch(MaxIndexedTransformFeedbackBufferChain), gl.val),
               FALSE)

ResolveMaxIndexedUniformBuffer ==
    /\ pc = "max_indexed_uniform_buffer"
    /\ Resolve("max_indexed_uniform_buffer", "max_compute_work_group_count",
               MaxIndexedUniformBufferChain,
               MaxIndexedUniformBufferQueries(Branch(MaxIndexedUniformBufferChain), gl.val),
               MaxIndexedUniformBufferValue(Branch(MaxIndexedUniformBufferChain), gl.val),
               FALSE)

ResolveMaxComputeWorkGroupCount ==
    /\ pc = "max_compute_work_group_count"
    /\ Resolve("max_compute_work_group_count", "done",
               MaxComputeWorkGroupCountChain,
               MaxComputeWorkGroupCountQueries(Branch(MaxComputeWorkGroupCountChain), gl.val),
               MaxComputeWorkGroupCountValue(Branch(MaxComputeWorkGroupCountChain), gl.val),
               FALSE)

Next ==
    \/ FetchRenderer
    \/ GlslProbe
    \/ GlslBuild
    \/ ResolveRobustness
    \/ ResolveCanLoseContext
    \/ ResolveReleaseBehavior
    \/ ResolveStereo
    \/ ResolveSrgb
    \/ ResolveDepthBits
    \/ ResolveStencilBits
    \/ ResolveMaxCombinedTextureImageUnits
    \/ ResolveMaxTextureMaxAnisotropy
    \/ ResolveMaxTextureBufferSize
    \/ ResolveMaxViewportDims
    \/ ResolveMaxDrawBuffers
    \/ ResolveMaxPatchVertices
    \/ ResolveMaxIndexedAtomicCounterBuffer
    \/ ResolveMaxIndexedShaderStorageBuffer
    \/ ResolveMaxIndexedTransformFeedbackBuffer
    \/ ResolveMaxIndexedUniformBuffer
    \/ ResolveMaxComputeWorkGroupCount

Spec == Init /\ [][Next]_vars

(***************************************************************************)
(* Properties.                                                             *)
(***************************************************************************)
Resolved(f) == f \in DOMAIN caps

FieldQueries(f) == SelectSeq(queries, LAMBDA q : q.field = f)

(* The pass panicked while resolving f, the field after prev. *)
PanickedAt(f, prev) == pc = "panic" /\ Resolved(prev) /\ ~Resolved(f)

Has(ext) == ext \in extensions

AtLeast(api, major, minor) == VersionGe(version, Version(api, major, minor))

GlslReturned == Resolved("supported_glsl_versions")

GlslResult == caps["supported_glsl_versions"]

(* C1: on a GlEs context whose SHADER_COMPILER query answers 0,            *)
(* get_supported_glsl returns the empty sequence whatever the version and  *)
(* the extensions, having issued the compiler probe alone and evaluated no *)
(* test of the shader-version table.                                       *)
C1_NoCompilerEmpty ==
    (version.api = "GlEs" /\ gl.val["SHADER_COMPILER"] = 0) =>
        /\ pc # "glsl_table"
        /\ FieldQueries("supported_glsl_versions") # <<>> =>
              /\ GlslReturned
              /\ GlslResult = <<>>
              /\ FieldQueries("supported_glsl_versions")
                   = <<Query("supported_glsl_versions", "SHADER_COMPILER")>>
        /\ pc = "robustness" => compared = {}

C1_Witness ==
    /\ pc = "done"
    /\ version = Version("GlEs", 3, 1)
    /\ gl.val["SHADER_COMPILER"] = 0
    /\ Has("gl_arb_es2_compatibility")
    /\ GlslResult = <<>>

(* C2: when depth_bits (stencil_bits) takes the framebuffer-attachment     *)
(* path (version >= Gl 3.0, gl_arb_compatibility absent) and the           *)
(* attachment-object-type probe answers NONE, the field is None and the    *)
(* type probe is the only query issued for it.                             *)
C2_AttachmentNone ==
    (AtLeast("Gl", 3, 0) /\ ~Has("gl_arb_compatibility")) =>
        /\ (Resolved("depth_bits") /\ gl.val["DEPTH_OBJECT_TYPE"] = NONE) =>
              /\ caps["depth_bits"] = None
              /\ FieldQueries("depth_bits")
                   = <<Query("depth_bits", "DEPTH_OBJECT_TYPE")>>
        /\ (Resolved("stencil_bits") /\ gl.val["STENCIL_OBJECT_TYPE"] = NONE) =>
              /\ caps["stencil_bits"] = None
              /\ FieldQueries("stencil_bits")
                   = <<Query("stencil_bits", "STENCIL_OBJECT_TYPE")>>

C2_Witness ==
    /\ pc = "done"
    /\ AtLeast("Gl", 3, 0) /\ ~Has("gl_arb_compatibility")
    /\ gl.val["DEPTH_OBJECT_TYPE"] = NONE
    /\ gl.val["DEPTH_SIZE"] # 0
    /\ caps["depth_bits"] = None
    /\ Len(FieldQueries("depth_bits")) = 1

(* The gate of can_lose_context, as the claim words it. *)
C3_GateOpen ==
    \/ AtLeast("Gl", 4, 5)
    \/ Has("gl_khr_robustness") \/ Has("gl_arb_robustness") \/ Has("gl_ext_robustness")

(* C3: with the can_lose_context gate open (version >= Gl 4.5 or one of    *)
(* the three robustness extensions), LOSE_CONTEXT_ON_RESET decodes to      *)
(* true, NO_RESET_NOTIFICATION and the vendor value 0x31BE to false, and   *)
(* any other value panics: the pass ends there and no record is produced.  *)
C3_ResetStrategyDecoded ==
    LET strategy == gl.val["RESET_NOTIFICATION_STRATEGY"]
        field == "can_lose_context"
    IN  C3_GateOpen =>
          /\ (Resolved(field) \/ PanickedAt(field, "robustness")) =>
                CASE strategy = LOSE_CONTEXT_ON_RESET ->
                         Resolved(field) /\ caps[field] = TRUE
                  [] strategy = NO_RESET_NOTIFICATION ->
                         Resolved(field) /\ caps[field] = FALSE
                  [] strategy = AMD_RESET_NOTIFICATION ->
                         Resolved(field) /\ caps[field] = FALSE
                  [] OTHER -> pc = "panic" /\ ~Resolved(field)
          /\ pc = "done" =>
                strategy \in { LOSE_CONTEXT_ON_RESET, NO_RESET_NOTIFICATION,
                               AMD_RESET_NOTIFICATION }

C3_Witness ==
    /\ pc = "done"
    /\ C3_GateOpen
    /\ gl.val["RESET_NOTIFICATION_STRATEGY"] = AMD_RESET_NOTIFICATION
    /\ caps["can_lose_context"] = FALSE

(* C4: max_combined_texture_image_units is min(raw, 32) when the renderer  *)
(* string contains "Radeon" and the raw value otherwise, for every raw     *)
(* value, version and extension set; the raw value is queried, once,       *)
(* before the clamp.                                                       *)
C4_RadeonClamp ==
    LET field == "max_combined_texture_image_units"
        raw == gl.val["MAX_COMBINED_TEXTURE_IMAGE_UNITS"]
    IN  Resolved(field) =>
          /\ FieldQueries(field) = <<Query(field, "MAX_COMBINED_TEXTURE_IMAGE_UNITS")>>
          /\ Contains(gl.renderer.chars, Radeon) =>
                caps[field] = (IF raw < 32 THEN raw ELSE 32)
          /\ ~Contains(gl.renderer.chars, Radeon) => caps[field] = raw

C4_Witness ==
    /\ pc = "done"
    /\ version = Version("Gl", 2, 1)
    /\ extensions = {}
    /\ Contains(gl.renderer.chars, Radeon)
    /\ gl.val["MAX_COMBINED_TEXTURE_IMAGE_UNITS"] = 48
    /\ caps["max_combined_texture_image_units"] = 32

(* The shader-version entries gated by a version threshold alone, and the  *)
(* versions of the context's API kind below the context's.                *)
C5_VersionOnlyEntries ==
    { Version("Gl", 1, 4), Version("Gl", 1, 5), Version("Gl", 3, 3), Version("Gl", 4, 0),
      Version("Gl", 4, 1), Version("Gl", 4, 2), Version("Gl", 4, 3), Version("Gl", 4, 4),
      Version("Gl", 4, 5) }

C5_Earlier ==
    { v1 \in Versions : v1.api = version.api /\ v1 # version /\ VersionLe(v1, version) }

(* C5: version-gate monotonicity.  A feature gated by `version >= v_min`   *)
(* alone (stereo, max_indexed_atomic_counter_buffer, the shader-version    *)
(* entries Gl 1.4, 1.5, 3.3, 4.0 .. 4.5) that is available under a version *)
(* v1 is queried / pushed by the pass of every later version of the same   *)
(* API kind with the same extensions.                                      *)
C5_Monotonic ==
    pc = "done" =>
      \A v1 \in C5_Earlier :
        /\ Path(StereoChain, v1, extensions) = 1 =>
              FieldQueries("stereo") = <<Query("stereo", "STEREO")>>
        /\ Path(MaxIndexedAtomicCounterBufferChain, v1, extensions) = 1 =>
              FieldQueries("max_indexed_atomic_counter_buffer")
                = <<Query("max_indexed_atomic_counter_buffer",
                          "MAX_ATOMIC_COUNTER_BUFFER_BINDINGS")>>
        /\ \A i \in 1..Len(GlslTable) :
              (/\ GlslTable[i].entry \in C5_VersionOnlyEntries
               /\ GateTrue(GlslTable[i].gate, v1, extensions))
                 => GlslTable[i].entry \in Range(GlslResult)

C5_Witness ==
    /\ pc = "done"
    /\ version = Version("Gl", 4, 6)
    /\ \E i \in 1..Len(GlslTable) :
          /\ GlslTable[i].entry = Version("Gl", 3, 3)
          /\ GateTrue(GlslTable[i].gate, Version("Gl", 3, 3), extensions)
    /\ Version("Gl", 3, 3) \in Range(GlslResult)
    /\ Path(MaxIndexedAtomicCounterBufferChain, Version("Gl", 4, 2), extensions) = 1
    /\ FieldQueries("max_indexed_atomic_counter_buffer") # <<>>

(* A field with none of its unlocking extensions present is resolved to    *)
(* its fallback without a query.                                           *)
C6_Unlocked(f) == FieldExts[f] \cap extensions # {}

C6_Fallback(f, fallback) ==
    (Resolved(f) /\ ~C6_Unlocked(f)) => (FieldQueries(f) = <<>> /\ caps[f] = fallback)

(* C6: API-kind independence.  On a GlEs context of any version, each      *)
(* field whose version gate names a desktop threshold only resolves, with  *)
(* its unlocking extensions absent, to its fallback without a query; and   *)
(* on a Gl context of any version without gl_arb_es3_2_compatibility the   *)
(* entry GlEs 3.2 is not pushed.                                           *)
C6_KindIndependent ==
    /\ version.api = "GlEs" =>
          /\ C6_Fallback("max_indexed_atomic_counter_buffer", 0)
          /\ C6_Fallback("max_indexed_shader_storage_buffer", 0)
          /\ C6_Fallback("max_indexed_transform_feedback_buffer", 0)
          /\ C6_Fallback("max_indexed_uniform_buffer", 0)
          /\ C6_Fallback("max_patch_vertices", None)
          /\ C6_Fallback("max_texture_buffer_size", None)
          /\ C6_Fallback("stereo", FALSE)
    /\ (version.api = "Gl" /\ GlslReturned /\ ~Has("gl_arb_es3_2_compatibility")) =>
          Version("GlEs", 3, 2) \notin Range(GlslResult)

C6_Witness ==
    /\ pc = "done"
    /\ version = Version("GlEs", 3, 2)
    /\ extensions = {}
    /\ caps["max_patch_vertices"] = None
    /\ caps["max_indexed_atomic_counter_buffer"] = 0
    /\ caps["stereo"] = FALSE

C8_NativePath(f, token) == Resolved(f) => FieldQueries(f)[1] = Query(f, token)

(* C8: gate priority.  For robustness, srgb, depth_bits, stencil_bits and  *)
(* max_indexed_transform_feedback_buffer, whenever the native-version gate *)
(* is satisfied the native-version query is the one issued, even if an     *)
(* extension gate of the feature is satisfied too.                         *)
C8_NativeGateWins ==
    /\ (AtLeast("Gl", 4, 5) \/ AtLeast("GlEs", 3, 2)) =>
          (Resolved("robustness") =>
             FieldQueries("robustness") = <<Query("robustness", "CONTEXT_FLAGS")>>)
    /\ AtLeast("Gl", 3, 0) =>
          (Resolved("srgb") => FieldQueries("srgb") = <<Query("srgb", "COLOR_ENCODING")>>)
    /\ AtLeast("Gl", 3, 0) => C8_NativePath("depth_bits", "DEPTH_OBJECT_TYPE")
    /\ AtLeast("Gl", 3, 0) => C8_NativePath("stencil_bits", "STENCIL_OBJECT_TYPE")
    /\ AtLeast("Gl", 4, 0) =>
          C8_NativePath("max_indexed_transform_feedback_buffer",
                        "MAX_TRANSFORM_FEEDBACK_BUFFERS")

(* C8, amended: for robustness and max_indexed_transform_feedback_buffer   *)
(* the native-version query is issued whenever the native-version gate is  *)
(* satisfied, whatever the extensions.  For srgb, depth_bits and           *)
(* stencil_bits the extension comes first: with gl_ext_framebuffer_srgb    *)
(* (gl_arb_compatibility) present the extension / legacy query is issued   *)
(* even on Gl >= 3.0, and the framebuffer-attachment query is issued       *)
(* exactly when the version is Gl >= 3.0 and that extension is absent.     *)
C8_PathPriority ==
    /\ (AtLeast("Gl", 4, 5) \/ AtLeast("GlEs", 3, 2)) =>
          (Resolved("robustness") =>
             FieldQueries("robustness") = <<Query("robustness", "CONTEXT_FLAGS")>>)
    /\ AtLeast("Gl", 4, 0) =>
          C8_NativePath("max_indexed_transform_feedback_buffer",
                        "MAX_TRANSFORM_FEEDBACK_BUFFERS")
    /\ Resolved("srgb") =>
          /\ Has("gl_ext_framebuffer_srgb") =>
                FieldQueries("srgb") = <<Query("srgb", "FRAMEBUFFER_SRGB_CAPABLE_EXT")>>
          /\ (AtLeast("Gl", 3, 0) /\ ~Has("gl_ext_framebuffer_srgb")) =>
                FieldQueries("srgb") = <<Query("srgb", "COLOR_ENCODING")>>
    /\ Resolved("depth_bits") =>
          IF AtLeast("Gl", 3, 0) /\ ~Has("gl_arb_compatibility")
          THEN FieldQueries("depth_bits")[1] = Query("depth_bits", "DEPTH_OBJECT_TYPE")
          ELSE FieldQueries("depth_bits") = <<Query("depth_bits", "DEPTH_BITS")>>
    /\ Resolved("stencil_bits") =>
          IF AtLeast("Gl", 3, 0) /\ ~Has("gl_arb_compatibility")
          THEN FieldQueries("stencil_bits")[1] = Query("stencil_bits", "STENCIL_OBJECT_TYPE")
          ELSE FieldQueries("stencil_bits") = <<Query("stencil_bits", "STENCIL_BITS")>>

C8_Witness ==
    /\ pc = "done"
    /\ version = Version("Gl", 4, 6)
    /\ extensions = AllExts
    /\ gl.renderer = GenericRenderer
    /\ FieldQueries("robustness") = <<Query("robustness", "CONTEXT_FLAGS")>>
    /\ FieldQueries("srgb") = <<Query("srgb", "FRAMEBUFFER_SRGB_CAPABLE_EXT")>>
    /\ caps["max_combined_texture_image_units"] = gl.val["MAX_COMBINED_TEXTURE_IMAGE_UNITS"]

(* A field none of whose gates is satisfied is resolved to the fallback    *)
(* without a query.                                                        *)
C9_Unsupported(f, chain, fallback) ==
    (Resolved(f) /\ Path(chain, version, extensions) = 0) =>
        (FieldQueries(f) = <<>> /\ caps[f] = fallback)

(* C9 (all fields but release_behavior): a field whose gates all evaluate  *)
(* to unsupported is resolved without a query, to its fixed fallback: 0    *)
(* (indexed buffer counts, compute work-group counts), false (robustness,  *)
(* can_lose_context, stereo, srgb), None (max_texture_max_anisotropy,      *)
(* max_texture_buffer_size, max_patch_vertices), 1 (max_draw_buffers).     *)
C9_FallbacksButRelease ==
    /\ C9_Unsupported("robustness", RobustnessChain, FALSE)
    /\ C9_Unsupported("can_lose_context", CanLoseContextChain, FALSE)
    /\ C9_Unsupported("stereo", StereoChain, FALSE)
    /\ C9_Unsupported("srgb", SrgbChain, FALSE)
    /\ (Resolved("max_texture_max_anisotropy")
          /\ ~Has("gl_ext_texture_filter_anisotropic")) =>
            /\ FieldQueries("max_texture_max_anisotropy") = <<>>
            /\ caps["max_texture_max_anisotropy"] = None
    /\ C9_Unsupported("max_texture_buffer_size", MaxTextureBufferSizeChain, None)
    /\ C9_Unsupported("max_patch_vertices", MaxPatchVerticesChain, None)
    /\ C9_Unsupported("max_draw_buffers", MaxDrawBuffersChain, 1)
    /\ C9_Unsupported("max_indexed_atomic_counter_buffer",
                      MaxIndexedAtomicCounterBufferChain, 0)
    /\ C9_Unsupported("max_indexed_shader_storage_buffer",
                      MaxIndexedShaderStorageBufferChain, 0)
    /\ C9_Unsupported("max_indexed_transform_feedback_buffer",
                      MaxIndexedTransformFeedbackBufferChain, 0)
    /\ C9_Unsupported("max_indexed_uniform_buffer", MaxIndexedUniformBufferChain, 0)
    /\ C9_Unsupported("max_compute_work_group_count",
                      MaxComputeWorkGroupCountChain, <<0, 0, 0>>)

(* C9: every field whose gates all evaluate to unsupported is resolved     *)
(* without a query to its fixed fallback, which for release_behavior (no   *)
(* gl_khr_context_flush_control) is the None variant of ReleaseBehavior.   *)
C9_FallbackWithoutQuery ==
    /\ C9_FallbacksButRelease
    /\ C9_Unsupported("release_behavior", ReleaseBehaviorChain, "None")

(* C9, amended: as C9, but the fallback of release_behavior without        *)
(* gl_khr_context_flush_control is the Flush variant of ReleaseBehavior.   *)
C9_FallbackWithoutQueryFlush ==
    /\ C9_FallbacksButRelease
    /\ C9_Unsupported("release_behavior", ReleaseBehaviorChain, "Flush")

C9_Witness ==
    /\ pc = "done"
    /\ version = Version("Gl", 1, 5)
    /\ extensions = {}
    /\ caps["release_behavior"] = "Flush"
    /\ caps["max_draw_buffers"] = 1
    /\ caps["max_compute_work_group_count"] = <<0, 0, 0>>
    /\ caps["max_patch_vertices"] = None
    /\ caps["robustness"] = FALSE
    /\ FieldQueries("max_draw_buffers") = <<>>

(* The shader-version table, in its order, and the place of an entry.      *)
C10_Table ==
    << Version("GlEs", 1, 0), Version("GlEs", 3, 0), Version("GlEs", 3, 1),
       Version("GlEs", 3, 2), Version("Gl", 1, 1), Version("Gl", 1, 2),
       Version("Gl", 1, 3), Version("Gl", 1, 4), Version("Gl", 1, 5),
       Version("Gl", 3, 3), Version("Gl", 4, 0), Version("Gl", 4, 1),
       Version("Gl", 4, 2), Version("Gl", 4, 3), Version("Gl", 4, 4),
       Version("Gl", 4, 5) >>

C10_Position(entry) == CHOOSE k \in 1..Len(C10_Table) : C10_Table[k] = entry

(* C10: with a compiler present, the sequence get_supported_glsl returns   *)
(* has no duplicate, lists its entries in the order of the table [GlEs 1.0,*)
(* GlEs 3.0, GlEs 3.1, GlEs 3.2, Gl 1.1, Gl 1.2, Gl 1.3, Gl 1.4, Gl 1.5,   *)
(* Gl 3.3, Gl 4.0, Gl 4.1, Gl 4.2, Gl 4.3, Gl 4.4, Gl 4.5], and holds an   *)
(* entry exactly when the entry's own test is satisfied; entries of both   *)
(* families can appear together.  Stated of the result as                  *)
(* get_supported_glsl returns it and as the finished record holds it.      *)
C10_TableOrder ==
    (/\ pc \in { "robustness", "done" }
     /\ ~(version.api = "GlEs" /\ gl.val["SHADER_COMPILER"] = 0)) =>
        /\ Range(GlslResult) \subseteq Range(C10_Table)
        /\ Cardinality(Range(GlslResult)) = Len(GlslResult)
        /\ \A i \in 1..(Len(GlslResult) - 1) :
              C10_Position(GlslResult[i]) < C10_Position(GlslResult[i + 1])
        /\ Range(GlslResult)
             = { C10_Table[k] : k \in { n \in 1..Len(C10_Table) :
                                          GateTrue(GlslTable[n].gate, version, extensions) } }

C10_Witness ==
    /\ pc = "done"
    /\ version = Version("Gl", 4, 1)
    /\ extensions = {}
    /\ GlslResult = << Version("GlEs", 1, 0), Version("Gl", 1, 4), Version("Gl", 1, 5),
                       Version("Gl", 3, 3), Version("Gl", 4, 0), Version("Gl", 4, 1) >>

====
